---- MODULE Spec2Model ----
(***************************************************************************)
(* Model of gcp_variant_transforms/bq_to_vcf.py (BigQuery -> sharded VCF   *)
(* -> composed VCF) and of transforms/sample_info_to_bigquery.py.          *)
(*                                                                         *)
(* Strings are sequences of character codes (ASCII), so that Python's      *)
(* string comparison, '%' formatting and concatenation are computed        *)
(* character by character.                                                 *)
(***************************************************************************)
EXTENDS Integers, Sequences, FiniteSets, TLC

(***************************************************************************)
(* Bounds of the model.                                                    *)
(***************************************************************************)
\* Key specification: start positions 0..MaxStart (plus a few large ones).
MaxStart == 12
\* Pipeline specification: at most MaxVariants rows in the input table.
MaxVariants == 3
\* Sample specification: at most MaxSampleNames names given by the caller.
MaxSampleNames == 2
\* Sample info specification: at most MaxHeaders input files, each with at
\* most MaxHeaderSamples samples.
MaxHeaders == 2
MaxHeaderSamples == 2

(***************************************************************************)
(* Program constants.                                                      *)
(***************************************************************************)
\* sys.maxsize, the "unbounded" shard width (2^63 - 1 in CPython on 64 bit;
\* the model uses the largest integer TLC represents, compared with = only).
sys_maxsize == 2147483647
\* The minimum field width of '%011d'.
PadWidth == 11

(***************************************************************************)
(* Strings.                                                                *)
(***************************************************************************)
RECURSIVE StrLess(_, _)
\* Python's a < b on str: the first differing character decides, a proper
\* prefix is smaller.
StrLess(a, b) ==
  IF a = <<>> THEN b # <<>>
  ELSE IF b = <<>> THEN FALSE
  ELSE IF a[1] # b[1] THEN a[1] < b[1]
  ELSE StrLess(Tail(a), Tail(b))

StrLeq(a, b) == a = b \/ StrLess(a, b)

RECURSIVE Digits(_)
\* '%d' % n for n >= 0: the decimal digits, most significant first.
Digits(n) ==
  IF n < 10 THEN <<48 + n>>
  ELSE Append(Digits(n \div 10), 48 + (n % 10))

RECURSIVE Zeros(_)
Zeros(k) == IF k <= 0 THEN <<>> ELSE <<48>> \o Zeros(k - 1)

\* A plausible slip: '%d' instead of '%011d'.
FormatUnpadded(n) == Digits(n)

\* '%011d' % n for n >= 0: zero-filled on the left to AT LEAST PadWidth
\* characters; a longer number is not truncated.
Format011d(n) == Zeros(PadWidth - Len(Digits(n))) \o Digits(n)

(***************************************************************************)
(* _pair_variant_with_key                                                  *)
(***************************************************************************)
\* A plausible slip: the bucket index instead of the bucket start.
PairKeyBucketIndex(variant, number_of_variants_per_shard) ==
  IF number_of_variants_per_shard = sys_maxsize
  THEN variant.reference_name
  ELSE variant.reference_name \o <<95>> \o
       Format011d(variant.start \div number_of_variants_per_shard)

\* The key of _pair_variant_with_key's result (its second component is the
\* variant itself).
pair_variant_with_key(variant, number_of_variants_per_shard) ==
  IF number_of_variants_per_shard = sys_maxsize
  THEN variant.reference_name
  ELSE variant.reference_name \o <<95>> \o
       Format011d((variant.start \div number_of_variants_per_shard)
                  * number_of_variants_per_shard)

(***************************************************************************)
(* Collections and sorting.                                                *)
(***************************************************************************)
\* The orders in which the elements of a PCollection (given in the order
\* they were emitted) can reach a downstream combiner.  A PCollection is
\* unordered: bundles are processed and accumulators merged in any order.
Orderings(seq) ==
  LET n == Len(seq)
  IN {[i \in 1 .. n |-> seq[q[i]]] :
        q \in {r \in [1 .. n -> 1 .. n] :
                 \A i, j \in 1 .. n : r[i] = r[j] => i = j}}

\* The orders in which the elements of a set can be delivered.
SetOrderings(S) ==
  {f \in [1 .. Cardinality(S) -> S] :
     \A i, j \in 1 .. Cardinality(S) : f[i] = f[j] => i = j}

Range(seq) == {seq[i] : i \in 1 .. Len(seq)}

RECURSIVE InsertString(_, _)
InsertString(x, sortedSeq) ==
  IF sortedSeq = <<>> THEN <<x>>
  ELSE IF StrLess(x, Head(sortedSeq)) THEN <<x>> \o sortedSeq
  ELSE <<Head(sortedSeq)>> \o InsertString(x, Tail(sortedSeq))

RECURSIVE SortedStrings(_)
\* sorted(list of str): ascending, stable.
SortedStrings(seq) ==
  IF seq = <<>> THEN <<>>
  ELSE InsertString(seq[Len(seq)], SortedStrings(SubSeq(seq, 1, Len(seq) - 1)))

\* vcfio.Variant's ordering: by reference name, then by start position.
VariantLess(a, b) ==
  \/ StrLess(a.reference_name, b.reference_name)
  \/ a.reference_name = b.reference_name /\ a.start < b.start

RECURSIVE InsertVariantBeforeEqual(_, _)
\* A plausible slip: a sort that is not stable; a record goes in front of
\* the records it is equal to.
InsertVariantBeforeEqual(x, sortedSeq) ==
  IF sortedSeq = <<>> THEN <<x>>
  ELSE IF ~VariantLess(Head(sortedSeq), x) THEN <<x>> \o sortedSeq
  ELSE <<Head(sortedSeq)>> \o InsertVariantBeforeEqual(x, Tail(sortedSeq))

RECURSIVE InsertVariant(_, _)
\* One step of the stable sort: x, which came after the records of
\* sortedSeq, goes behind the records it is not less than.
InsertVariant(x, sortedSeq) ==
  IF sortedSeq = <<>> THEN <<x>>
  ELSE IF VariantLess(x, Head(sortedSeq)) THEN <<x>> \o sortedSeq
  ELSE <<Head(sortedSeq)>> \o InsertVariant(x, Tail(sortedSeq))

RECURSIVE SortedVariants(_)
\* sorted(variants): ascending in the variants' ordering, stable.
SortedVariants(seq) ==
  IF seq = <<>> THEN <<>>
  ELSE InsertVariant(seq[Len(seq)], SortedVariants(SubSeq(seq, 1, Len(seq) - 1)))

(***************************************************************************)
(* Sample identity.                                                        *)
(***************************************************************************)
RECURSIVE HashFrom(_, _)
HashFrom(h, str) ==
  IF str = <<>> THEN h
  ELSE HashFrom((h * 131 + Head(str)) % 1000003, Tail(str))

\* hashing_util.generate_sample_id: a fixed hash of the name's characters.
generate_sample_id(sample_name) == HashFrom(7, sample_name)

\* hashing_util.create_composite_sample_name: the name qualified by the path
\* of the file it comes from.
create_composite_sample_name(sample_name, file_path) ==
  file_path \o <<95>> \o sample_name

\* sample_mapping_table.SampleIdToNameDict: the id -> name table of the rows.
SampleIdToNameDict(rows) ==
  [id \in {r.sample_id : r \in rows} |->
     (CHOOSE r \in rows : r.sample_id = id).sample_name]

\* sample_mapping_table.SampleNameToIdDict: the name -> id table of the rows.
SampleNameToIdDict(rows) ==
  [name \in {r.sample_name : r \in rows} |->
     (CHOOSE r \in rows : r.sample_name = name).sample_id]

(***************************************************************************)
(* State.                                                                  *)
(***************************************************************************)
VARIABLES
  \* -- key specification: _pair_variant_with_key applied to two records
  key_in,          \* the records still to be paired with a key
  key_width,       \* number_of_variants_per_shard
  key_out,         \* the (key, variant) pairs returned so far
  \* -- run() and the pipeline of _bigquery_to_vcf_shards
  known_args,      \* sample_names, number_of_bases_per_shard, genomic_regions
  is_direct_runner,
  bq_table,        \* the variant rows of the input table
  input_rows,      \* the rows of bq_table in the order the query returns them
  sample_table_rows, \* the rows of the sample info table
  pc,              \* where run() is: start, pipeline, compose, done, error
  error,           \* the exception that ended run(), if any
  done,            \* the labels of the transforms that have completed
  variants,        \* PCollection: the variants read
  temp_sample_names, \* PCollection, in the order its elements were emitted
  sample_ids,      \* the single list of 'CombineSortedSampleIds'
  sample_names,    \* the single list of temp_sample_names | ToList()
  header_file,     \* the sample columns of the header line written
  keyed,           \* PCollection of (key, densified variant)
  grouped,         \* GroupByKey's output: key -> iterable of variants
  shard_files,     \* file path -> the variants written to it, in order
  output_file,     \* the composed output: header columns and data lines
  \* -- ConvertSampleInfoToRow over the headers of the input files
  sample_name_encoding, \* self._sample_name_encoding
  vcf_headers,     \* the headers still to be processed
  processed,       \* the headers processed, in the order they were
  info_rows        \* the rows yielded, in order

keyVars == <<key_in, key_width, key_out>>
inputVars == <<is_direct_runner, bq_table, input_rows, sample_table_rows>>
sampleVars == <<temp_sample_names, sample_ids, sample_names, header_file>>
shardVars == <<variants, keyed, grouped, shard_files>>
runVars == <<known_args, pc, error, done, output_file>>
pipeVars == <<inputVars, sampleVars, shardVars, runVars>>

infoVars == <<sample_name_encoding, vcf_headers, processed, info_rows>>

vars == <<keyVars, pipeVars, infoVars>>

(***************************************************************************)
(* Reference names used as inputs: "chr1", "chr10", "chr2".                *)
(***************************************************************************)
Chr1 == <<99, 104, 114, 49>>
Chr10 == <<99, 104, 114, 49, 48>>
Chr2 == <<99, 104, 114, 50>>
\* "chr1_0000000000": a reference name that extends another one by "_" and
\* digits, as the keys of that one do.
Chr1Underscore == Chr1 \o <<95, 48, 48, 48, 48, 48, 48, 48, 48, 48, 48>>
KeyRefs == {Chr1, Chr10, Chr2}

\* Start positions: every small one, and the powers of ten around which the
\* number of digits changes, up to the 10-digit positions.
KeyStarts == (0 .. MaxStart) \cup {15, 99, 100, 999999999, 1000000000, 2000000000}
\* Shard widths: bounded ones and the unbounded value.
KeyWidths == {1, 10, 1000, sys_maxsize}

KeyVariant(ref, start) == [reference_name |-> ref, start |-> start]

(***************************************************************************)
(* Key specification: two records are paired with their keys, in turn.     *)
(***************************************************************************)
\* The variables of ConvertSampleInfoToRow while it is not exercised.
InfoOff ==
  /\ sample_name_encoding = "WITHOUT_FILE_PATH"
  /\ vcf_headers = {}
  /\ processed = <<>>
  /\ info_rows = <<>>

\* The pipeline's variables while the pipeline is not exercised.
PipelineOff ==
  /\ known_args = [sample_names |-> <<>>, number_of_bases_per_shard |-> sys_maxsize,
                   genomic_regions |-> <<>>]
  /\ is_direct_runner = TRUE
  /\ bq_table = {}
  /\ input_rows = <<>>
  /\ sample_table_rows = {}
  /\ pc = "off"
  /\ error = [type |-> "none", sample |-> <<>>]
  /\ done = {}
  /\ variants = {}
  /\ temp_sample_names = <<>>
  /\ sample_ids = <<>>
  /\ sample_names = <<>>
  /\ header_file = <<>>
  /\ keyed = {}
  /\ grouped = <<>>
  /\ shard_files = <<>>
  /\ output_file = [exists |-> FALSE, header |-> <<>>, lines |-> <<>>]

InitKey ==
  /\ \E ra \in KeyRefs, rb \in KeyRefs, sa \in KeyStarts, sb \in KeyStarts :
       key_in = <<KeyVariant(ra, sa), KeyVariant(rb, sb)>>
  /\ key_width \in KeyWidths
  /\ key_out = <<>>
  /\ PipelineOff
  /\ InfoOff

\* beam.Map(_pair_variant_with_key, number_of_bases_per_shard) on one element.
PairVariantWithKey ==
  /\ key_in # <<>>
  /\ key_out' = Append(key_out,
                       <<pair_variant_with_key(Head(key_in), key_width),
                         Head(key_in)>>)
  /\ key_in' = Tail(key_in)
  /\ UNCHANGED <<key_width, pipeVars, infoVars>>

NextKey == PairVariantWithKey

SpecKey == InitKey /\ [][NextKey]_vars

(***************************************************************************)
(* run() and the pipeline of _bigquery_to_vcf_shards.                      *)
(***************************************************************************)
NoError == [type |-> "none", sample |-> <<>>]
UnresolvedSampleError(name) == [type |-> "UnresolvedSampleError", sample |-> name]
IOError == [type |-> "IOError", sample |-> <<>>]

\* vcf_data_temp_folder ("tmp"), and FileSystems.join(prefix, name).
vcf_data_temp_folder == <<116, 109, 112>>
FileSystemsJoin(prefix, name) == prefix \o <<47>> \o name

\* _GENOMIC_REGION_TEMPLATE: the rows the query of _get_variant_query selects.
MatchesQuery(v, genomic_regions) ==
  \/ genomic_regions = <<>>
  \/ \E i \in 1 .. Len(genomic_regions) :
       /\ v.reference_name = genomic_regions[i].reference_name
       /\ v.start >= genomic_regions[i].start
       /\ v.end <= genomic_regions[i].end

\* combine_sample_ids.SampleIdsCombiner: the distinct sample ids of the calls.
SampleIdsCombiner(vs) == UNION {Range(v.calls) : v \in vs}

\* densify_variants.DensifyVariants: one call per id of sample_ids, in order.
DensifyVariant(v, ids) == [v EXCEPT !.calls = ids]

\* The iterable GroupByKey hands over for key k, elements arriving in `order`.
GroupOf(k, order) ==
  LET HasKey(kv) == kv[1] = k
      mine == SelectSeq(order, HasKey)
  IN [i \in 1 .. Len(mine) |-> mine[i][2]]

\* A plausible slip: the group is written in the order GroupByKey delivers it.
FilePathAndUnsortedVariants(file_name, vs, file_path_prefix) ==
  <<FileSystemsJoin(file_path_prefix, file_name), vs>>

\* A plausible slip: the file is named by the reference name of its records
\* instead of by the key of the group.
FilePathByReferenceName(file_name, vs, file_path_prefix) ==
  <<FileSystemsJoin(file_path_prefix, vs[1].reference_name), SortedVariants(vs)>>

\* _get_file_path_and_sorted_variants: the file path and the sorted variants.
get_file_path_and_sorted_variants(file_name, vs, file_path_prefix) ==
  <<FileSystemsJoin(file_path_prefix, file_name), SortedVariants(vs)>>

RECURSIVE ConcatFiles(_, _)
\* The contents of the files named by `paths`, one after the other.
ConcatFiles(paths, files) ==
  IF paths = <<>> THEN <<>>
  ELSE files[Head(paths)] \o ConcatFiles(Tail(paths), files)

\* vcf_file_composer: the header, then every shard in sorted-name order.
ComposeVcfShards(header, files) ==
  [exists |-> TRUE,
   header |-> header,
   lines |-> ConcatFiles(SortedStrings(CHOOSE o \in SetOrderings(DOMAIN files) : TRUE),
                         files)]

\* No output artifact.
NoOutput == [exists |-> FALSE, header |-> <<>>, lines |-> <<>>]

\* A plausible slip: the exception is recorded but the pipeline carries on.
RaiseAndCarryOn(e) == pc' = pc /\ error' = e

Raise(e) == pc' = "error" /\ error' = e

\* sample_mapping_table.GetSampleIds: the positions of the names that are
\* not in the name -> id table; looking one up raises.
UnresolvedNames(names, name_to_id) ==
  {i \in 1 .. Len(names) : names[i] \notin DOMAIN name_to_id}

\* run(), lines 106-107 and the entry into the pipeline.
RunStart ==
  /\ pc = "start"
  /\ known_args' =
       IF is_direct_runner
       THEN [known_args EXCEPT !.number_of_bases_per_shard = sys_maxsize]
       ELSE known_args
  /\ pc' = "pipeline"
  /\ UNCHANGED <<keyVars, infoVars, inputVars, sampleVars, shardVars, error, done, output_file>>

\* 'ReadFromBigQuery' and BigQueryToVariant.
ReadFromBigQuery ==
  /\ pc = "pipeline"
  /\ "Read" \notin done
  /\ variants' = {v \in bq_table : MatchesQuery(v, known_args.genomic_regions)}
  /\ done' = done \cup {"Read"}
  /\ UNCHANGED <<keyVars, infoVars, inputVars, sampleVars, keyed, grouped, shard_files,
                 known_args, pc, error, output_file>>

\* transforms.Create(known_args.sample_names, reshuffle=False).
CreateSampleNames ==
  /\ pc = "pipeline"
  /\ "TempSampleNames" \notin done
  /\ known_args.sample_names # <<>>
  /\ temp_sample_names' = known_args.sample_names
  /\ done' = done \cup {"TempSampleNames"}
  /\ UNCHANGED <<keyVars, infoVars, inputVars, sample_ids, sample_names, header_file,
                 shardVars, known_args, pc, error, output_file>>

\* 'CombineSampleIds', 'GetSampleNames', 'CombineToList', 'SortSampleNames'.
DeriveSampleNames ==
  /\ pc = "pipeline"
  /\ "TempSampleNames" \notin done
  /\ known_args.sample_names = <<>>
  /\ "Read" \in done
  /\ LET id_to_name == SampleIdToNameDict(sample_table_rows)
         ids == SampleIdsCombiner(variants)
     IN IF \E id \in ids : id \notin DOMAIN id_to_name
        THEN /\ Raise(UnresolvedSampleError(<<>>))
             /\ UNCHANGED <<temp_sample_names, done>>
        ELSE /\ \E order \in SetOrderings(ids) :
                  temp_sample_names' =
                    SortedStrings([i \in 1 .. Len(order) |-> id_to_name[order[i]]])
             /\ done' = done \cup {"TempSampleNames"}
             /\ UNCHANGED <<pc, error>>
  /\ UNCHANGED <<keyVars, infoVars, inputVars, sample_ids, sample_names, header_file,
                 shardVars, known_args, output_file>>

\* 'GetSampleIds' and 'CombineSortedSampleIds'.
GetSampleIds ==
  /\ pc = "pipeline"
  /\ "TempSampleNames" \in done
  /\ "SampleIds" \notin done
  /\ LET name_to_id == SampleNameToIdDict(sample_table_rows)
         missing == UnresolvedNames(temp_sample_names, name_to_id)
     IN IF missing # {}
        THEN /\ \E i \in missing : Raise(UnresolvedSampleError(temp_sample_names[i]))
             /\ UNCHANGED <<sample_ids, done>>
        ELSE /\ sample_ids' \in
                  Orderings([i \in 1 .. Len(temp_sample_names) |->
                               name_to_id[temp_sample_names[i]]])
             /\ done' = done \cup {"SampleIds"}
             /\ UNCHANGED <<pc, error>>
  /\ UNCHANGED <<keyVars, infoVars, inputVars, temp_sample_names, sample_names, header_file,
                 shardVars, known_args, output_file>>

\* sample_names = temp_sample_names | beam.combiners.ToList().
ToListSampleNames ==
  /\ pc = "pipeline"
  /\ "TempSampleNames" \in done
  /\ "SampleNames" \notin done
  /\ sample_names' \in Orderings(temp_sample_names)
  /\ done' = done \cup {"SampleNames"}
  /\ UNCHANGED <<keyVars, infoVars, inputVars, temp_sample_names, sample_ids, header_file,
                 shardVars, known_args, pc, error, output_file>>

\* 'GenerateVcfDataHeader': _write_vcf_header_with_sample_names.
GenerateVcfDataHeader ==
  /\ pc = "pipeline"
  /\ "SampleNames" \in done
  /\ "Header" \notin done
  /\ \E written \in BOOLEAN :
       IF written
       THEN /\ header_file' = sample_names
            /\ done' = done \cup {"Header"}
            /\ UNCHANGED <<pc, error>>
       ELSE /\ Raise(IOError)
            /\ UNCHANGED <<header_file, done>>
  /\ UNCHANGED <<keyVars, infoVars, inputVars, temp_sample_names, sample_ids, sample_names,
                 shardVars, known_args, output_file>>

\* DensifyVariants(AsSingleton(sample_ids)) and 'PairVariantWithKey'.
DensifyAndPair ==
  /\ pc = "pipeline"
  /\ "Read" \in done
  /\ "SampleIds" \in done
  /\ "Pair" \notin done
  /\ keyed' = {<<pair_variant_with_key(DensifyVariant(v, sample_ids),
                                       known_args.number_of_bases_per_shard),
                 DensifyVariant(v, sample_ids)>> : v \in variants}
  /\ done' = done \cup {"Pair"}
  /\ UNCHANGED <<keyVars, infoVars, inputVars, sampleVars, variants, grouped, shard_files,
                 known_args, pc, error, output_file>>

\* 'GroupVariantsByKey': the elements arrive in any order.
GroupVariantsByKey ==
  /\ pc = "pipeline"
  /\ "Pair" \in done
  /\ "Group" \notin done
  /\ \E order \in SetOrderings(keyed) :
       grouped' = [k \in {kv[1] : kv \in keyed} |-> GroupOf(k, order)]
  /\ done' = done \cup {"Group"}
  /\ UNCHANGED <<keyVars, infoVars, inputVars, sampleVars, variants, keyed, shard_files,
                 known_args, pc, error, output_file>>

\* _get_file_path_and_sorted_variants and vcfio.WriteVcfDataLines, one group.
WriteShard(k) ==
  /\ pc = "pipeline"
  /\ "Group" \in done
  /\ LET out == get_file_path_and_sorted_variants(k, grouped[k], vcf_data_temp_folder)
     IN /\ out[1] \notin DOMAIN shard_files
        /\ \E written \in BOOLEAN :
             IF written
             THEN /\ shard_files' = shard_files @@ (out[1] :> out[2])
                  /\ UNCHANGED <<pc, error>>
             ELSE /\ Raise(IOError)
                  /\ UNCHANGED shard_files
  /\ UNCHANGED <<keyVars, infoVars, inputVars, sampleVars, variants, keyed, grouped,
                 known_args, done, output_file>>

\* Every transform of the pipeline has completed.
PipelineComplete ==
  /\ {"Read", "TempSampleNames", "SampleIds", "SampleNames", "Header", "Pair", "Group"}
       \subseteq done
  /\ \A k \in DOMAIN grouped :
       FileSystemsJoin(vcf_data_temp_folder, k) \in DOMAIN shard_files

\* A plausible slip: run() goes on to compose without waiting for the
\* pipeline to finish (p.run() without the `with` block).
MayComposeWithoutWaiting == TRUE

\* The `with beam.Pipeline(...)` block exits normally only when the pipeline
\* has run to completion; an exception of a transform leaves run() through it.
MayCompose == PipelineComplete

\* _bigquery_to_vcf_shards returns to run().
PipelineReturns ==
  /\ pc = "pipeline"
  /\ MayCompose
  /\ pc' = "compose"
  /\ UNCHANGED <<keyVars, infoVars, inputVars, sampleVars, shardVars, known_args, error, done,
                 output_file>>

\* vcf_file_composer.compose_local_vcf_shards.
ComposeLocalVcfShards ==
  /\ pc = "compose"
  /\ is_direct_runner
  /\ output_file' = ComposeVcfShards(header_file, shard_files)
  /\ pc' = "done"
  /\ UNCHANGED <<keyVars, infoVars, inputVars, sampleVars, shardVars, known_args, error, done>>

\* vcf_file_composer.compose_gcs_vcf_shards.
ComposeGcsVcfShards ==
  /\ pc = "compose"
  /\ ~is_direct_runner
  /\ output_file' = ComposeVcfShards(header_file, shard_files)
  /\ pc' = "done"
  /\ UNCHANGED <<keyVars, infoVars, inputVars, sampleVars, shardVars, known_args, error, done>>


Next ==
  \/ RunStart
  \/ ReadFromBigQuery
  \/ CreateSampleNames
  \/ DeriveSampleNames
  \/ GetSampleIds
  \/ ToListSampleNames
  \/ GenerateVcfDataHeader
  \/ DensifyAndPair
  \/ GroupVariantsByKey
  \/ \E k \in DOMAIN grouped : WriteShard(k)
  \/ PipelineReturns
  \/ ComposeLocalVcfShards
  \/ ComposeGcsVcfShards

(***************************************************************************)
(* Inputs of the pipeline.                                                 *)
(***************************************************************************)
NameA == <<65>>
NameB == <<66>>
NameC == <<67>>
NameQ == <<81>>

\* The row of the sample info table for a sample name (sample_id is
\* generate_sample_id of the name, as SampleInfoToBigQuery writes it).
SampleRow(name) == [sample_id |-> generate_sample_id(name), sample_name |-> name]

\* A row of the variant table: a one-base variant with the given calls.
TableVariant(ref, start, calls) ==
  [reference_name |-> ref, start |-> start, end |-> start + 1, calls |-> calls]

Region(ref, lo, hi) == [reference_name |-> ref, start |-> lo, end |-> hi]

CallsAB == <<generate_sample_id(NameA), generate_sample_id(NameB)>>

\* Two positions in different buckets of width 10, on four references.
VariantPool ==
  {TableVariant(ref, start, CallsAB) :
     ref \in {Chr1, Chr10, Chr2, Chr1Underscore}, start \in {5, 15}}

RegionLists ==
  {<<>>,
   <<Region(Chr2, 0, 100), Region(Chr10, 0, 100), Region(Chr1, 0, 100)>>,
   <<Region(Chr2, 0, 100), Region(Chr1, 0, 10)>>}

KeyIdle == key_in = <<>> /\ key_width = sys_maxsize /\ key_out = <<>>

PipelineStart ==
  /\ pc = "start"
  /\ error = NoError
  /\ done = {}
  /\ variants = {}
  /\ temp_sample_names = <<>>
  /\ sample_ids = <<>>
  /\ sample_names = <<>>
  /\ header_file = <<>>
  /\ keyed = {}
  /\ grouped = <<>>
  /\ shard_files = <<>>
  /\ output_file = NoOutput

\* The pipeline on tables of up to MaxVariants variants of several
\* references, with and without sharding, region filter and sample names.
\* No two rows of VariantPool share a position and no transform reads the
\* order of the rows, so the rows are returned in coordinate order here;
\* InitSort ranges over every order.
Init ==
  /\ KeyIdle
  /\ InfoOff
  /\ PipelineStart
  /\ is_direct_runner \in BOOLEAN
  /\ bq_table \in {t \in SUBSET VariantPool : Cardinality(t) \in 1 .. MaxVariants}
  /\ input_rows = SortedVariants(CHOOSE o \in SetOrderings(bq_table) : TRUE)
  /\ sample_table_rows = {SampleRow(NameA), SampleRow(NameB)}
  /\ \E names \in {<<>>, <<NameB, NameA>>, <<NameB, NameQ>>}, regions \in RegionLists :
       known_args = [sample_names |-> names,
                     number_of_bases_per_shard |-> 10,
                     genomic_regions |-> regions]

Spec == Init /\ [][Next]_vars

\* The sequences without repetition of at most n of the names.
NameLists(names, n) ==
  UNION {{f \in [1 .. k -> names] : \A i, j \in 1 .. k : f[i] = f[j] => i = j} :
           k \in 0 .. n}

\* The pipeline on one or two variants, with every combination of observed
\* sample ids, sample table and caller-supplied sample names.
InitSamples ==
  /\ KeyIdle
  /\ InfoOff
  /\ PipelineStart
  /\ is_direct_runner \in BOOLEAN
  /\ \E observed \in (SUBSET {NameA, NameB, NameC}) \ {{}} :
       \E calls \in SetOrderings({generate_sample_id(n) : n \in observed}) :
         /\ bq_table = {TableVariant(Chr1, 5, calls)}
         /\ input_rows = <<TableVariant(Chr1, 5, calls)>>
  /\ \E known \in (SUBSET {NameA, NameB, NameC}) \ {{}} :
       sample_table_rows = {SampleRow(n) : n \in known}
  /\ \E names \in NameLists({NameA, NameB, NameC}, MaxSampleNames) :
       known_args = [sample_names |-> names,
                     number_of_bases_per_shard |-> 10,
                     genomic_regions |-> <<>>]

SpecSamples == InitSamples /\ [][Next]_vars

\* Three records at the same (reference name, start) that differ in their
\* end, and two records elsewhere.
SortPool ==
  {[TableVariant(Chr1, 5, CallsAB) EXCEPT !.end = e] : e \in {6, 7, 8}}
    \cup {TableVariant(Chr1, 15, CallsAB), TableVariant(Chr2, 5, CallsAB)}

\* The sequences without repetition of 1 .. n of the rows.
RowLists(rows, n) ==
  UNION {{f \in [1 .. k -> rows] : \A i, j \in 1 .. k : f[i] = f[j] => i = j} :
           k \in 1 .. n}

\* The pipeline on tables of up to MaxVariants rows, some of them at the
\* same position, returned by the query in every order.
InitSort ==
  /\ KeyIdle
  /\ InfoOff
  /\ PipelineStart
  /\ is_direct_runner \in BOOLEAN
  /\ input_rows \in RowLists(SortPool, MaxVariants)
  /\ bq_table = Range(input_rows)
  /\ sample_table_rows = {SampleRow(NameA), SampleRow(NameB)}
  /\ \E names \in {<<>>, <<NameB, NameA>>} :
       known_args = [sample_names |-> names,
                     number_of_bases_per_shard |-> 10,
                     genomic_regions |-> <<>>]

SpecSort == InitSort /\ [][Next]_vars

(***************************************************************************)
(* ConvertSampleInfoToRow (sample_info_to_bigquery.py).                    *)
(***************************************************************************)
\* A plausible slip: the id is taken from the name before the file path is
\* combined into it.
RowIdBeforeComposite(sample, file_path, encoding, current_minute) ==
  [sample_id |-> generate_sample_id(sample),
   sample_name |-> IF encoding = "WITH_FILE_PATH"
                   THEN create_composite_sample_name(sample, file_path)
                   ELSE sample,
   file_path |-> file_path,
   ingestion_datetime |-> current_minute]

\* The body of process()'s loop for one sample: `sample` is rebound to the
\* composite name when the encoding asks for it, then hashed.
SampleInfoRow(sample, file_path, encoding, current_minute) ==
  LET name == IF encoding = "WITH_FILE_PATH"
              THEN create_composite_sample_name(sample, file_path)
              ELSE sample
  IN [sample_id |-> generate_sample_id(name),
      sample_name |-> name,
      file_path |-> file_path,
      ingestion_datetime |-> current_minute]

RECURSIVE process(_, _, _, _)
\* ConvertSampleInfoToRow.process: the rows yielded for a header's samples.
process(samples, file_path, encoding, current_minute) ==
  IF samples = <<>> THEN <<>>
  ELSE <<SampleInfoRow(Head(samples), file_path, encoding, current_minute)>>
       \o process(Tail(samples), file_path, encoding, current_minute)

PathF == <<102>>
PathG == <<103>>
PathH == <<104>>

\* The sample lists of a header line, and the paths of the input files.
HeaderSamples == NameLists({NameA, NameB, NameC}, MaxHeaderSamples) \ {<<>>}
HeaderPaths == {PathF, PathG, PathH}

\* The headers of up to MaxHeaders input files of different paths.
InitInfo ==
  /\ KeyIdle
  /\ PipelineOff
  /\ sample_name_encoding \in {"WITHOUT_FILE_PATH", "WITH_FILE_PATH"}
  /\ \E paths \in {ps \in SUBSET HeaderPaths : Cardinality(ps) \in 1 .. MaxHeaders} :
       \E samples \in [paths -> HeaderSamples] :
         vcf_headers = {[file_path |-> path, samples |-> samples[path]] : path \in paths}
  /\ processed = <<>>
  /\ info_rows = <<>>

\* beam.ParDo(ConvertSampleInfoToRow(encoding)) on one header, whichever the
\* runner takes next; _get_now_to_minute() is the minute of the call.
ConvertSampleInfoToRow(vcf_header) ==
  /\ vcf_header \in vcf_headers
  /\ \E current_minute \in {0, 1} :
       info_rows' = info_rows \o process(vcf_header.samples, vcf_header.file_path,
                                         sample_name_encoding, current_minute)
  /\ processed' = Append(processed, vcf_header)
  /\ vcf_headers' = vcf_headers \ {vcf_header}
  /\ UNCHANGED <<sample_name_encoding, keyVars, pipeVars>>

NextInfo == \E vcf_header \in vcf_headers : ConvertSampleInfoToRow(vcf_header)

SpecInfo == InitInfo /\ [][NextInfo]_vars

(***************************************************************************)
(* Claims about the shard key.                                             *)
(***************************************************************************)
\* The start of the bucket of a position: floor(start / w) * w.
BucketStart(start, w) == (start \div w) * w

RECURSIVE DecimalValue(_)
\* The number a string of decimal digits denotes.
DecimalValue(str) ==
  IF str = <<>> THEN 0
  ELSE DecimalValue(SubSeq(str, 1, Len(str) - 1)) * 10 + (str[Len(str)] - 48)

IsDigits(str) == \A i \in 1 .. Len(str) : str[i] \in 48 .. 57

KeyOf(i) == key_out[i][1]
VariantOf(i) == key_out[i][2]

\* C1: for two records of one reference with start(r1) < start(r2), the key
\* of r1 is lexicographically <= the key of r2, and the keys are equal iff
\* the two records fall in the same bucket.
C1_KeyOrder ==
  (/\ Len(key_out) = 2
   /\ VariantOf(1).reference_name = VariantOf(2).reference_name
   /\ VariantOf(1).start < VariantOf(2).start)
  => /\ StrLeq(KeyOf(1), KeyOf(2))
     /\ (KeyOf(1) = KeyOf(2)) <=>
          (BucketStart(VariantOf(1).start, key_width)
             = BucketStart(VariantOf(2).start, key_width))

\* Two records of one reference whose bucket starts have different numbers
\* of digits (9 and 10, width 1) have been paired with different keys.
C1_Witness ==
  /\ Len(key_out) = 2
  /\ key_width = 1
  /\ VariantOf(1).reference_name = VariantOf(2).reference_name
  /\ VariantOf(1).start = 9
  /\ VariantOf(2).start = 10
  /\ KeyOf(1) # KeyOf(2)

\* The key the specification describes for a record: the reference name for
\* the unbounded width, otherwise reference name, "_" and a suffix of exactly
\* 11 decimal digits denoting the bucket start.
IsSpecifiedKey(key, variant, w) ==
  IF w = sys_maxsize
  THEN key = variant.reference_name
  ELSE LET n == Len(variant.reference_name)
           suffix == SubSeq(key, n + 2, Len(key))
       IN /\ Len(key) = n + 1 + 11
          /\ SubSeq(key, 1, n) = variant.reference_name
          /\ key[n + 1] = 95
          /\ IsDigits(suffix)
          /\ DecimalValue(suffix) = BucketStart(variant.start, w)

ElevenZeros == <<48, 48, 48, 48, 48, 48, 48, 48, 48, 48, 48>>
TenZerosOneZero == <<48, 48, 48, 48, 48, 48, 48, 48, 48, 49, 48>>

\* The scenario of the specification: (chr1,5), (chr1,15), (chr2,3), width 10.
ScenarioKey(variant) ==
  IF variant = KeyVariant(Chr1, 5) THEN Chr1 \o <<95>> \o ElevenZeros
  ELSE IF variant = KeyVariant(Chr1, 15) THEN Chr1 \o <<95>> \o TenZerosOneZero
  ELSE Chr2 \o <<95>> \o ElevenZeros

InScenario(variant) ==
  variant \in {KeyVariant(Chr1, 5), KeyVariant(Chr1, 15), KeyVariant(Chr2, 3)}

\* C3: the key is the reference name alone for the unbounded width (so two
\* records share a key iff they share the reference name), and otherwise
\* referenceName + "_" + the bucket start as exactly 11 zero-padded digits;
\* the scenario's records get the scenario's keys.
C3_KeyFormat ==
  /\ \A i \in 1 .. Len(key_out) :
       /\ IsSpecifiedKey(KeyOf(i), VariantOf(i), key_width)
       /\ (key_width = 10 /\ InScenario(VariantOf(i)))
            => KeyOf(i) = ScenarioKey(VariantOf(i))
  /\ (Len(key_out) = 2 /\ key_width = sys_maxsize)
       => ((KeyOf(1) = KeyOf(2))
             <=> (VariantOf(1).reference_name = VariantOf(2).reference_name))

\* (chr1,15) and (chr2,3) have been paired with their keys at width 10.
C3_Witness ==
  /\ Len(key_out) = 2
  /\ key_width = 10
  /\ VariantOf(1) = KeyVariant(Chr1, 15)
  /\ VariantOf(2) = KeyVariant(Chr2, 3)
  /\ KeyOf(1) = Chr1 \o <<95>> \o TenZerosOneZero

(***************************************************************************)
(* Claims about the shards and the composed output.                        *)
(***************************************************************************)
Coordinates(lines) ==
  [i \in 1 .. Len(lines) |-> <<lines[i].reference_name, lines[i].start>>]

\* All records read, sorted directly by (reference name, start position).
DirectSort == SortedVariants(CHOOSE o \in SetOrderings(variants) : TRUE)

\* C2: the shards, each sorted, concatenated in ascending order of shard
\* name, are exactly the records sorted directly by (reference name, start).
C2_ComposeIsDirectSort ==
  pc = "done" => Coordinates(output_file.lines) = Coordinates(DirectSort)

\* The position of the first region of the region list that names `ref`.
FirstRegion(ref) ==
  CHOOSE i \in 1 .. Len(known_args.genomic_regions) :
    /\ known_args.genomic_regions[i].reference_name = ref
    /\ \A j \in 1 .. i - 1 : known_args.genomic_regions[j].reference_name # ref

\* All records of one reference are one contiguous block, in ascending
\* start position.
ContiguousAscending(lines) ==
  \A i, j \in 1 .. Len(lines) :
    (i < j /\ lines[i].reference_name = lines[j].reference_name)
    => /\ lines[i].start <= lines[j].start
       /\ \A k \in i .. j : lines[k].reference_name = lines[i].reference_name

\* C4 as stated: references appear in the order in which the region list
\* first names them, each as one contiguous block in ascending start.
C4_RegionListOrder ==
  (pc = "done" /\ known_args.genomic_regions # <<>>)
  => /\ \A i, j \in 1 .. Len(output_file.lines) :
          i < j => FirstRegion(output_file.lines[i].reference_name)
                     <= FirstRegion(output_file.lines[j].reference_name)
     /\ ContiguousAscending(output_file.lines)

\* No reference name begins with another one followed by "_".
NoNameExtendsAnother(refs) ==
  \A a, b \in refs :
    ~(Len(b) > Len(a) /\ SubSeq(b, 1, Len(a) + 1) = a \o <<95>>)

\* C4 as amended: the records appear in ascending string order of their
\* shard keys (for the unbounded width: of their reference names), whatever
\* the order of the region list; and when no reference name begins with
\* another one followed by "_", all records of one reference are one
\* contiguous block in ascending start position.
C4_ShardNameOrder ==
  pc = "done"
  => /\ \A i, j \in 1 .. Len(output_file.lines) :
          i < j => StrLeq(pair_variant_with_key(output_file.lines[i],
                                                known_args.number_of_bases_per_shard),
                          pair_variant_with_key(output_file.lines[j],
                                                known_args.number_of_bases_per_shard))
     /\ (known_args.number_of_bases_per_shard = sys_maxsize) =>
          \A i, j \in 1 .. Len(output_file.lines) :
            i < j => StrLeq(output_file.lines[i].reference_name,
                            output_file.lines[j].reference_name)
     /\ NoNameExtendsAnother({v.reference_name : v \in variants})
          => ContiguousAscending(output_file.lines)

\* An output of three records has been composed from a region list that
\* names chr2 first, and chr2's record is not first in the output.
C4_Witness ==
  /\ pc = "done"
  /\ known_args.genomic_regions # <<>>
  /\ known_args.genomic_regions[1].reference_name = Chr2
  /\ Len(output_file.lines) = 3
  /\ output_file.lines[1].reference_name # Chr2
  /\ output_file.lines[3].reference_name = Chr2

\* How often a record occurs in the shard files.
RECURSIVE Occurrences(_, _)
Occurrences(v, paths) ==
  IF paths = {} THEN 0
  ELSE LET p == CHOOSE q \in paths : TRUE
       IN Cardinality({i \in 1 .. Len(shard_files[p]) : shard_files[p][i] = v})
          + Occurrences(v, paths \ {p})

\* C10: every record of a shard file has the key the file is named by,
\* under the directory prefix; once every shard is written, every input
\* record is in the shard files exactly once.
C10_ShardPartition ==
  /\ \A p \in DOMAIN shard_files :
       \A i \in 1 .. Len(shard_files[p]) :
         p = vcf_data_temp_folder \o <<47>> \o
             pair_variant_with_key(shard_files[p][i],
                                   known_args.number_of_bases_per_shard)
  /\ PipelineComplete =>
       \A v \in variants :
         Occurrences(DensifyVariant(v, sample_ids), DOMAIN shard_files) = 1

\* Three records have been written to two shard files, one of them holding
\* two records.
C10_Witness ==
  /\ PipelineComplete
  /\ Cardinality(variants) = 3
  /\ Cardinality(DOMAIN shard_files) = 2
  /\ \E p \in DOMAIN shard_files : Len(shard_files[p]) = 2

(***************************************************************************)
(* Claims about the sample names and ids.                                  *)
(***************************************************************************)
\* C5: with an explicit non-empty list of sample names, the final name list
\* and the header's sample columns are that list, in the caller's order.
C5_ExplicitNamesVerbatim ==
  known_args.sample_names # <<>>
  => /\ "SampleNames" \in done => sample_names = known_args.sample_names
     /\ "Header" \in done => header_file = known_args.sample_names

\* The names of the distinct sample ids observed in the records read.
ObservedNames ==
  {SampleIdToNameDict(sample_table_rows)[id] : id \in SampleIdsCombiner(variants)}

\* C6: without explicit sample names, the final name list is the names of
\* the observed sample ids, without duplicates, in ascending string order.
C6_DerivedNamesSorted ==
  (known_args.sample_names = <<>> /\ "SampleNames" \in done)
  => sample_names = SortedStrings(CHOOSE o \in SetOrderings(ObservedNames) : TRUE)

\* C7: the id list used to densify is as long as the name list of the
\* header, and its i-th id is nameToId of the i-th name.
C7_IdsMatchNames ==
  ("SampleIds" \in done /\ "SampleNames" \in done)
  => /\ Len(sample_ids) = Len(sample_names)
     /\ \A i \in 1 .. Len(sample_names) :
          sample_ids[i] = SampleNameToIdDict(sample_table_rows)[sample_names[i]]

\* The final names that the name -> id table does not hold.
UnresolvedFinalNames ==
  IF "TempSampleNames" \in done
  THEN {n \in Range(temp_sample_names) :
          n \notin {r.sample_name : r \in sample_table_rows}}
  ELSE {}

\* C8: when a final sample name is absent from nameToId, no id list is
\* produced without it, nothing is composed, the run can only end in an
\* error, and an UnresolvedSampleError names an absent sample.
C8_UnresolvedSampleIsFatal ==
  UnresolvedFinalNames # {}
  => /\ "SampleIds" \notin done
     /\ pc \notin {"compose", "done"}
     /\ output_file = NoOutput
     /\ (~ENABLED Next) => pc = "error"
     /\ error.type = "UnresolvedSampleError" => error.sample \in UnresolvedFinalNames

\* The run has ended with an UnresolvedSampleError naming the sample "Q".
C8_Witness ==
  /\ pc = "error"
  /\ error = UnresolvedSampleError(NameQ)
  /\ NameQ \in UnresolvedFinalNames

(***************************************************************************)
(* Claims about the sample ids of the sample info table.                   *)
(***************************************************************************)
RECURSIVE NamesAndPaths(_)
\* The (sample name, file path) pairs of the headers processed, in order.
NamesAndPaths(headers) ==
  IF headers = <<>> THEN <<>>
  ELSE [i \in 1 .. Len(Head(headers).samples) |->
          <<Head(headers).samples[i], Head(headers).file_path>>]
       \o NamesAndPaths(Tail(headers))

\* C9: one row per sample processed; the same (name, path) yields the same
\* id; with path-qualified encoding the same name with different paths
\* yields different ids; without it the same name yields the same id
\* whatever the path; and the id of a sample is the id it gets when it is
\* processed alone, wherever in the processing it occurs.
C9_SampleIdDeterministic ==
  LET inputs == NamesAndPaths(processed)
  IN /\ Len(info_rows) = Len(inputs)
     /\ \A i \in 1 .. Len(info_rows) :
          info_rows[i].sample_id =
            process(<<inputs[i][1]>>, inputs[i][2], sample_name_encoding, 0)[1].sample_id
     /\ \A i, j \in 1 .. Len(info_rows) :
          /\ (inputs[i] = inputs[j])
               => info_rows[i].sample_id = info_rows[j].sample_id
          /\ (sample_name_encoding = "WITH_FILE_PATH"
              /\ inputs[i][1] = inputs[j][1] /\ inputs[i][2] # inputs[j][2])
               => info_rows[i].sample_id # info_rows[j].sample_id
          /\ (sample_name_encoding = "WITHOUT_FILE_PATH"
              /\ inputs[i][1] = inputs[j][1])
               => info_rows[i].sample_id = info_rows[j].sample_id

\* With path-qualified encoding, sample "A" of two different files has been
\* processed, as the second sample of one and the first of the other.
C9_Witness ==
  /\ sample_name_encoding = "WITH_FILE_PATH"
  /\ Len(info_rows) = 3
  /\ vcf_headers = {}
  /\ NamesAndPaths(processed)[2][1] = NameA
  /\ NamesAndPaths(processed)[3][1] = NameA
  /\ info_rows[2].sample_id # info_rows[3].sample_id

(***************************************************************************)
(* Order of the records within a shard file.                               *)
(***************************************************************************)
\* The place of a written record among the rows the query returned: the
\* row with the same reference name, start and end (densifying changes
\* only the calls).
InputIndex(line) ==
  CHOOSE i \in 1 .. Len(input_rows) :
    /\ input_rows[i].reference_name = line.reference_name
    /\ input_rows[i].start = line.start
    /\ input_rows[i].end = line.end

SamePosition(a, b) == a.reference_name = b.reference_name /\ a.start = b.start

\* The records of a file are in nondecreasing order of (reference, start).
Nondecreasing(lines) ==
  \A i, j \in 1 .. Len(lines) : i < j => ~VariantLess(lines[j], lines[i])

\* C11 as stated: within every shard file the records are in nondecreasing
\* order of (reference name, start), and two records at the same (reference
\* name, start) are in the order the input had them, in whatever order
\* GroupByKey delivered the group.
C11_ShardSortedStableOnInput ==
  \A path \in DOMAIN shard_files :
    LET lines == shard_files[path]
    IN /\ Nondecreasing(lines)
       /\ \A i, j \in 1 .. Len(lines) :
            (i < j /\ SamePosition(lines[i], lines[j]))
              => InputIndex(lines[i]) < InputIndex(lines[j])

\* The part of C11 the code keeps: every shard file is in nondecreasing
\* order of (reference name, start).
ShardsNondecreasing ==
  \A path \in DOMAIN shard_files : Nondecreasing(shard_files[path])

\* What the sort is stable on: two records at the same position are written
\* in the order GroupByKey delivered them.
ShardsStableOnDelivery ==
  \A k \in DOMAIN grouped :
    LET path == FileSystemsJoin(vcf_data_temp_folder, k)
        Place(line) == CHOOSE i \in 1 .. Len(grouped[k]) : grouped[k][i] = line
    IN path \in DOMAIN shard_files =>
         \A i, j \in 1 .. Len(shard_files[path]) :
           (i < j /\ SamePosition(shard_files[path][i], shard_files[path][j]))
             => Place(shard_files[path][i]) < Place(shard_files[path][j])

\* C11, amended: within every shard file the records are in nondecreasing
\* order of (reference name, start), and two records at the same (reference
\* name, start) are in the order in which GroupByKey delivered them to the
\* sort, which need not be the order of the input.
C11_ShardSortedStableOnDelivery ==
  ShardsNondecreasing /\ ShardsStableOnDelivery

\* A shard file written with a record of another position and two records
\* at the same position that GroupByKey delivered, and the sort kept, in
\* the reverse of their input order.
C11_Witness ==
  \E path \in DOMAIN shard_files :
    LET lines == shard_files[path]
    IN \E i, j, m \in 1 .. Len(lines) :
         /\ i < j
         /\ SamePosition(lines[i], lines[j])
         /\ InputIndex(lines[j]) < InputIndex(lines[i])
         /\ ~SamePosition(lines[i], lines[m])

(***************************************************************************)
(* Composition waits for the pipeline.                                     *)
(***************************************************************************)
HeaderWritten == "Header" \in done

EveryShardWritten ==
  /\ "Group" \in done
  /\ \A k \in DOMAIN grouped :
       FileSystemsJoin(vcf_data_temp_folder, k) \in DOMAIN shard_files

\* _bigquery_to_vcf_shards has returned to run(): composition is about to
\* start or has been done.
CompositionStarted == pc \in {"compose", "done"}

\* C12: composition starts only after the header and every shard have been
\* written and no write has failed; once a header or shard write has
\* failed the run stays failed, composition never starts and there is no
\* output; the output is written once, by run()'s one compose step, and
\* whenever it exists it is the whole composition of the header and shards.
C12_ComposeAfterBarrier ==
  /\ [](CompositionStarted => HeaderWritten /\ EveryShardWritten /\ error = NoError)
  /\ [](error # NoError => ~CompositionStarted /\ output_file = NoOutput)
  /\ [](output_file.exists
          => pc = "done" /\ output_file = ComposeVcfShards(header_file, shard_files))
  /\ [][error # NoError => error' = error /\ pc' = "error"]_vars
  /\ [][output_file' # output_file
          => pc = "compose" /\ pc' = "done" /\ ~output_file.exists]_vars

\* A shard write has failed after the header and another shard had been
\* written: the run has ended in the error, with nothing composed.
C12_Witness ==
  /\ error = IOError
  /\ pc = "error"
  /\ HeaderWritten
  /\ shard_files # <<>>
  /\ ~EveryShardWritten
  /\ output_file = NoOutput

====
